---- MODULE Spec2Model ----
(***************************************************************************)
(* The ABC-Model of examples/speed_comparision.ipynb: abc_model_py,        *)
(* abc_model_numba and abc_model_fortran (Cython wrapper + Fortran         *)
(* subroutine), as a state machine over the locals of the evaluation that  *)
(* is running.  The notebook is single-threaded and every call is          *)
(* synchronous, so one frame of locals is live at a time; impl names the   *)
(* function the frame belongs to and pc the source line it is at.          *)
(*                                                                         *)
(* float64 values are modelled as exact rationals [num, den] in lowest     *)
(* terms, so equalities below are equalities of real numbers.              *)
(***************************************************************************)
EXTENDS Integers, Sequences, FiniteSets

VARIABLES a, b, c, rain, outflow, state_in, state_out, i, t, N, pc, impl, ncalls, result

vars == <<a, b, c, rain, outflow, state_in, state_out, i, t, N, pc, impl, ncalls, result>>

\* ---------------------------------------------------------------- bounds
MaxLen == 3

MaxCalls == 2

\* ------------------------------------------------------ exact arithmetic
Abs(x) == IF x < 0 THEN -x ELSE x

RECURSIVE GCD(_, _)
GCD(m, n) == IF n = 0 THEN m ELSE GCD(n, m % n)

Rat(n, d) ==
    LET g == GCD(Abs(n), d) IN [num |-> n \div g, den |-> d \div g]

Zero == Rat(0, 1)

One == Rat(1, 1)

RAdd(x, y) ==
    LET g == GCD(x.den, y.den)
        l == (x.den \div g) * y.den
    IN  Rat(x.num * (l \div x.den) + y.num * (l \div y.den), l)

RNeg(x) == [num |-> -x.num, den |-> x.den]

RSub(x, y) == RAdd(x, RNeg(y))

RMul(x, y) == Rat(x.num * y.num, x.den * y.den)

\* ----------------------------------------------------------- input sets
AVals == {Zero, Rat(1, 5), One}

BVals == {Zero, Rat(3, 5)}

CVals == {Zero, Rat(1, 10), Rat(1, 2)}

RainVals == {Zero, One}

RainSeqs == UNION {[1..n -> RainVals] : n \in 0..MaxLen}

\* contents of memory that numpy.empty / an unassigned Fortran local may hold
Garbage == {Zero, Rat(7, 1)}

\* --------------------------------------------------- the loop body, pure
\* np.zeros((rain.size), dtype=np.float64)
Zeros_long(n) == [k \in 1..(n + 1) |-> Zero]

Zeros(n) == [k \in 1..n |-> Zero]

\* line 79: state_out = (1 - c) * state_in + a * rain[i]      (i is 0-based)
StateOut_swapped(pa, pc_, prain, pi, pstate) ==
    RAdd(RMul(pc_, pstate), RMul(pa, prain[pi + 1]))

StateOut_leaky(pa, pc_, prain, pi, pstate) ==
    RAdd(RMul(RSub(One, pc_), pstate), RMul(RSub(One, pa), prain[pi + 1]))

StateOut(pa, pc_, prain, pi, pstate) ==
    RAdd(RMul(RSub(One, pc_), pstate), RMul(pa, prain[pi + 1]))

\* line 80: outflow[i] = (1 - a - b) * rain[i] + c * state_in
OutflowAt_updated(pa, pb, pc_, prain, pi, pstate) ==
    RAdd(RMul(RSub(RSub(One, pa), pb), prain[pi + 1]),
         RMul(pc_, StateOut(pa, pc_, prain, pi, pstate)))

OutflowAt_lookahead(pa, pb, pc_, prain, pi, pstate) ==
    RAdd(RMul(RSub(RSub(One, pa), pb),
              prain[IF pi + 2 <= Len(prain) THEN pi + 2 ELSE pi + 1]),
         RMul(pc_, pstate))

OutflowAt_noloss(pa, pb, pc_, prain, pi, pstate) ==
    RAdd(RMul(RSub(One, pa), prain[pi + 1]), RMul(pc_, pstate))

OutflowAt(pa, pb, pc_, prain, pi, pstate) ==
    RAdd(RMul(RSub(RSub(One, pa), pb), prain[pi + 1]), RMul(pc_, pstate))

\* lines 91-92: the same two statements in abc_model_numba
NbStateOut(pa, pc_, prain, pi, pstate) ==
    RAdd(RMul(RSub(One, pc_), pstate), RMul(pa, prain[pi + 1]))

NbOutflowAt(pa, pb, pc_, prain, pi, pstate) ==
    RAdd(RMul(RSub(RSub(One, pa), pb), prain[pi + 1]), RMul(pc_, pstate))

\* lines 139-140: the same two statements in abc_model, inflow(t) 1-based
FStateOut(pa, pc_, inflow, pt, pstate) ==
    RAdd(RMul(RSub(One, pc_), pstate), RMul(pa, inflow[pt]))

FOutflowAt(pa, pb, pc_, inflow, pt, pstate) ==
    RAdd(RMul(RSub(RSub(One, pa), pb), inflow[pt]), RMul(pc_, pstate))

\* abc_model_py run to completion on a fresh frame (lines 75-82)
RECURSIVE PyLoop(_, _, _, _, _, _, _)
PyLoop(pa, pb, pc_, prain, pi, pstate, pout) ==
    IF pi >= Len(prain) THEN pout
    ELSE PyLoop(pa, pb, pc_, prain, pi + 1,
                StateOut(pa, pc_, prain, pi, pstate),
                [pout EXCEPT ![pi + 1] = OutflowAt(pa, pb, pc_, prain, pi, pstate)])

\* the carried state of abc_model_py after k iterations on a fresh frame
RECURSIVE PyStateAfter(_, _, _, _)
PyStateAfter(pa, pc_, prain, k) ==
    IF k = 0 THEN Zero
    ELSE StateOut(pa, pc_, prain, k - 1, PyStateAfter(pa, pc_, prain, k - 1))

FirstCall(pa, pb, pc_, prain) ==
    PyLoop(pa, pb, pc_, prain, 0, Zero, Zeros(Len(prain)))

NoResult == [kind |-> "none", val |-> <<>>]

\* ------------------------------------------------------------------ Init
Init ==
    /\ a = Zero /\ b = Zero /\ c = Zero
    /\ rain = <<>>
    /\ outflow = <<>>
    /\ state_in = Zero
    /\ state_out = Zero
    /\ i = -1
    /\ t = 0
    /\ N = 0
    /\ pc = "idle"
    /\ impl = "none"
    /\ ncalls = 0
    /\ result = NoResult

Between == pc \in {"idle", "done", "raised"} /\ ncalls < MaxCalls

Args(pa, pb, pc_, prain) ==
    /\ a' = pa /\ b' = pb /\ c' = pc_ /\ rain' = prain
    /\ ncalls' = ncalls + 1
    /\ result' = NoResult

\* -------------------------------------------------------- abc_model_py
\* lines 74-77: entry, outflow = np.zeros(...), state_in = 0, state_out = 0
PyCall_keeps_state ==
    /\ Between
    /\ \E pa \in AVals, pb \in BVals, pc_ \in CVals, prain \in RainSeqs :
          /\ Args(pa, pb, pc_, prain)
          /\ outflow' = Zeros(Len(prain))
    /\ state_in' = state_in
    /\ state_out' = Zero
    /\ i' = -1 /\ t' = 0 /\ N' = 0
    /\ impl' = "py"
    /\ pc' = "py78"

PyCall ==
    /\ Between
    /\ \E pa \in AVals, pb \in BVals, pc_ \in CVals, prain \in RainSeqs :
          /\ Args(pa, pb, pc_, prain)
          /\ outflow' = Zeros(Len(prain))
    /\ state_in' = Zero
    /\ state_out' = Zero
    /\ i' = -1 /\ t' = 0 /\ N' = 0
    /\ impl' = "py"
    /\ pc' = "py78"

\* line 78: for i in range(rain.size)
PyFor ==
    /\ pc = "py78"
    /\ IF i + 1 < Len(rain)
          THEN i' = i + 1 /\ pc' = "py79"
          ELSE i' = i /\ pc' = "py82"
    /\ UNCHANGED <<a, b, c, rain, outflow, state_in, state_out, t, N, impl, ncalls, result>>

\* line 79
PyLine79 ==
    /\ pc = "py79"
    /\ state_out' = StateOut(a, c, rain, i, state_in)
    /\ pc' = "py80"
    /\ UNCHANGED <<a, b, c, rain, outflow, state_in, i, t, N, impl, ncalls, result>>

\* line 80
PyLine80_clobber ==
    /\ pc = "py80"
    /\ outflow' = [k \in 1..Len(outflow) |->
                     IF k <= i + 1 THEN OutflowAt(a, b, c, rain, i, state_in)
                     ELSE outflow[k]]
    /\ pc' = "py81"
    /\ UNCHANGED <<a, b, c, rain, state_in, state_out, i, t, N, impl, ncalls, result>>

PyLine80 ==
    /\ pc = "py80"
    /\ outflow' = [outflow EXCEPT ![i + 1] = OutflowAt(a, b, c, rain, i, state_in)]
    /\ pc' = "py81"
    /\ UNCHANGED <<a, b, c, rain, state_in, state_out, i, t, N, impl, ncalls, result>>

\* line 81: state_in = state_out
PyLine81 ==
    /\ pc = "py81"
    /\ state_in' = state_out
    /\ pc' = "py78"
    /\ UNCHANGED <<a, b, c, rain, outflow, state_out, i, t, N, impl, ncalls, result>>

\* line 82: return outflow
PyReturn ==
    /\ pc = "py82"
    /\ result' = [kind |-> "value", val |-> outflow]
    /\ pc' = "done"
    /\ UNCHANGED <<a, b, c, rain, outflow, state_in, state_out, i, t, N, impl, ncalls>>

\* ----------------------------------------------------- abc_model_numba
\* lines 86-89
NbCall ==
    /\ Between
    /\ \E pa \in AVals, pb \in BVals, pc_ \in CVals, prain \in RainSeqs :
          /\ Args(pa, pb, pc_, prain)
          /\ outflow' = Zeros(Len(prain))
    /\ state_in' = Zero
    /\ state_out' = Zero
    /\ i' = -1 /\ t' = 0 /\ N' = 0
    /\ impl' = "numba"
    /\ pc' = "nb90"

\* line 90
NbFor ==
    /\ pc = "nb90"
    /\ IF i + 1 < Len(rain)
          THEN i' = i + 1 /\ pc' = "nb91"
          ELSE i' = i /\ pc' = "nb94"
    /\ UNCHANGED <<a, b, c, rain, outflow, state_in, state_out, t, N, impl, ncalls, result>>

\* line 91
NbLine91 ==
    /\ pc = "nb91"
    /\ state_out' = NbStateOut(a, c, rain, i, state_in)
    /\ pc' = "nb92"
    /\ UNCHANGED <<a, b, c, rain, outflow, state_in, i, t, N, impl, ncalls, result>>

\* line 92
NbLine92 ==
    /\ pc = "nb92"
    /\ outflow' = [outflow EXCEPT ![i + 1] = NbOutflowAt(a, b, c, rain, i, state_in)]
    /\ pc' = "nb93"
    /\ UNCHANGED <<a, b, c, rain, state_in, state_out, i, t, N, impl, ncalls, result>>

\* line 93
NbLine93 ==
    /\ pc = "nb93"
    /\ state_in' = state_out
    /\ pc' = "nb90"
    /\ UNCHANGED <<a, b, c, rain, outflow, state_out, i, t, N, impl, ncalls, result>>

\* line 94
NbReturn ==
    /\ pc = "nb94"
    /\ result' = [kind |-> "value", val |-> outflow]
    /\ pc' = "done"
    /\ UNCHANGED <<a, b, c, rain, outflow, state_in, state_out, i, t, N, impl, ncalls>>

\* --------------------------------------------------- abc_model_fortran
\* lines 171-173: N = size(inflow); outflow = empty(N, dtype="double"),
\* whose contents are whatever the allocation holds
FCall ==
    /\ Between
    /\ \E pa \in AVals, pb \in BVals, pc_ \in CVals, prain \in RainSeqs :
          /\ Args(pa, pb, pc_, prain)
          /\ N' = Len(prain)
          /\ outflow' \in [1..Len(prain) -> Garbage]
    /\ state_in' = Zero
    /\ state_out' = Zero
    /\ i' = -1 /\ t' = 0
    /\ impl' = "fortran"
    /\ pc' = "f174"

\* line 174: &inflow[0] and &outflow[0] are bounds-checked buffer accesses
\* (cython runs with its default directives, line 215), so on an empty
\* buffer they raise IndexError.  Otherwise c_abc_model_fortran (123-129)
\* calls abc_model, which declares state_in and state_out without a value
\* (135), sets state_in = 0 (137) and starts the do-loop at t = 1 (138).
FLine174 ==
    /\ pc = "f174"
    /\ IF N = 0
          THEN /\ result' = [kind |-> "IndexError", val |-> <<>>]
               /\ pc' = "raised"
               /\ UNCHANGED <<state_in, state_out, t>>
          ELSE /\ state_in' = Zero
               /\ state_out' \in Garbage
               /\ t' = 1
               /\ pc' = "f138"
               /\ UNCHANGED result
    /\ UNCHANGED <<a, b, c, rain, outflow, i, N, impl, ncalls>>

\* line 138: do t = 1, size(inflow)
FDo ==
    /\ pc = "f138"
    /\ pc' = IF t <= N THEN "f139" ELSE "f175"
    /\ UNCHANGED <<a, b, c, rain, outflow, state_in, state_out, i, t, N, impl, ncalls, result>>

\* line 139
FLine139 ==
    /\ pc = "f139"
    /\ state_out' = FStateOut(a, c, rain, t, state_in)
    /\ pc' = "f140"
    /\ UNCHANGED <<a, b, c, rain, outflow, state_in, i, t, N, impl, ncalls, result>>

\* line 140
FLine140 ==
    /\ pc = "f140"
    /\ outflow' = [outflow EXCEPT ![t] = FOutflowAt(a, b, c, rain, t, state_in)]
    /\ pc' = "f141"
    /\ UNCHANGED <<a, b, c, rain, state_in, state_out, i, t, N, impl, ncalls, result>>

\* lines 141-142: state_in = state_out; end do
FLine141 ==
    /\ pc = "f141"
    /\ state_in' = state_out
    /\ t' = t + 1
    /\ pc' = "f138"
    /\ UNCHANGED <<a, b, c, rain, outflow, state_out, i, N, impl, ncalls, result>>

\* line 175: return outflow
FReturn ==
    /\ pc = "f175"
    /\ result' = [kind |-> "value", val |-> outflow]
    /\ pc' = "done"
    /\ UNCHANGED <<a, b, c, rain, outflow, state_in, state_out, i, t, N, impl, ncalls>>

Next ==
    \/ PyCall \/ PyFor \/ PyLine79 \/ PyLine80 \/ PyLine81 \/ PyReturn
    \/ NbCall \/ NbFor \/ NbLine91 \/ NbLine92 \/ NbLine93 \/ NbReturn
    \/ FCall \/ FLine174 \/ FDo \/ FLine139 \/ FLine140 \/ FLine141 \/ FReturn

Spec == Init /\ [][Next]_vars

\* ================================================================ claims
RECURSIVE SumTo(_, _)
SumTo(s, k) == IF k = 0 THEN Zero ELSE RAdd(SumTo(s, k - 1), s[k])

Prefix(s, k) == [j \in 1..k |-> s[j]]

PyActive == impl = "py" /\ pc \in {"py78", "py79", "py80", "py81", "py82", "done"}

\* iterations whose carry (line 81 / 93) has run
PyCarried == IF pc \in {"py79", "py80", "py81", "nb91", "nb92", "nb93"} THEN i ELSE i + 1

\* output positions already written
PyWritten == IF pc \in {"py79", "py80", "nb91", "nb92"} THEN i ELSE i + 1

\* the reference recurrence of the contract: state_0 = 0,
\* state_(k+1) = (1 - c) * state_k + a * rain[k],
\* output[k] = (1 - a - b) * rain[k] + c * state_k          (k 0-based)
RECURSIVE RefState(_, _, _, _)
RefState(pa, pc_, prain, k) ==
    IF k = 0 THEN Zero
    ELSE RAdd(RMul(RSub(One, pc_), RefState(pa, pc_, prain, k - 1)),
              RMul(pa, prain[k]))

RefOutput(pa, pb, pc_, prain, k) ==
    RAdd(RMul(RSub(RSub(One, pa), pb), prain[k + 1]),
         RMul(pc_, RefState(pa, pc_, prain, k)))

\* C1: abc_model_py follows the reference recurrence: every output position
\* written so far holds (1 - a - b) * rain[k] + c * state_k, the carried state
\* after k iterations is state_k, and the returned sequence is the reference
\* output; output[k] uses the state before the update of step k.
Thm_C1 ==
    PyActive =>
        /\ \A k \in 0..(PyWritten - 1) : outflow[k + 1] = RefOutput(a, b, c, rain, k)
        /\ state_in = RefState(a, c, rain, PyCarried)
        /\ pc \in {"py80", "py81"} => state_out = RefState(a, c, rain, i + 1)
        /\ pc = "done" =>
              result = [kind |-> "value",
                        val |-> [k \in 1..Len(rain) |-> RefOutput(a, b, c, rain, k - 1)]]

Wit_C1 ==
    /\ impl = "py" /\ pc = "done"
    /\ Len(rain) >= 2
    /\ a # Zero /\ c # Zero /\ rain[1] # Zero
    /\ result.val[2] # Zero

\* C2: the output of abc_model_py has exactly one element per input position,
\* and is empty for an empty input.
Thm_C2 ==
    PyActive =>
        /\ DOMAIN outflow = 1..Len(rain)
        /\ pc = "done" =>
              /\ result.kind = "value"
              /\ DOMAIN result.val = 1..Len(rain)
              /\ Len(result.val) = Len(rain)
              /\ Len(rain) = 0 => result.val = <<>>

Wit_C2 == impl = "py" /\ pc = "done" /\ Len(rain) = 0 /\ result.val = <<>>

\* C3 (as claimed): for a = 0.2, b = 0.6, c = 0.1, rain = [1, 0, 0] the
\* result is [0.2, 0.02, 0.002] and the carried state is 0.2, 0.02, 0.002
\* after steps 0, 1, 2.
C3Case ==
    /\ impl = "py"
    /\ a = Rat(1, 5) /\ b = Rat(3, 5) /\ c = Rat(1, 10)
    /\ rain = <<One, Zero, Zero>>

Cex_C3 ==
    C3Case =>
        /\ pc = "py78" /\ i = 0 => state_in = Rat(1, 5)
        /\ pc = "py78" /\ i = 1 => state_in = Rat(1, 50)
        /\ pc = "py78" /\ i = 2 => state_in = Rat(1, 500)
        /\ pc = "done" => result.val = <<Rat(1, 5), Rat(1, 50), Rat(1, 500)>>

\* C3 (amended): for a = 0.2, b = 0.6, c = 0.1, rain = [1, 0, 0] the result
\* is [0.2, 0.02, 0.018] and the carried state is 0.2, 0.18, 0.162 after
\* steps 0, 1, 2.
Thm_C3 ==
    C3Case =>
        /\ pc = "py78" /\ i = 0 => state_in = Rat(1, 5)
        /\ pc = "py78" /\ i = 1 => state_in = Rat(9, 50)
        /\ pc = "py78" /\ i = 2 => state_in = Rat(81, 500)
        /\ pc = "done" => result.val = <<Rat(1, 5), Rat(1, 50), Rat(9, 500)>>

Wit_C3 == C3Case /\ pc = "done" /\ state_in = Rat(81, 500)

\* C4: whatever calls came before, abc_model_py starts its loop with the
\* carried state at zero and a zeroed output, and returns what a first call
\* with the same arguments returns.
Thm_C4 ==
    PyActive =>
        /\ pc = "py78" /\ i = -1 => state_in = Zero /\ outflow = Zeros(Len(rain))
        /\ pc = "done" => result.val = FirstCall(a, b, c, rain)

Wit_C4 ==
    /\ impl = "py" /\ pc = "done" /\ ncalls >= 2
    /\ Len(rain) >= 1 /\ c # Zero /\ state_in # Zero
    /\ result.val = FirstCall(a, b, c, rain)

\* C5: abc_model_py is causal: its output on positions 0..k-1 equals the
\* output on those positions for any other input that agrees with rain there,
\* and the value written at position i is determined by the carried state
\* entering step i and rain[i] alone.
Thm_C5 ==
    PyActive =>
        /\ pc = "py81" =>
              outflow[i + 1] = OutflowAt(a, b, c, <<rain[i + 1]>>, 0, state_in)
        /\ pc = "done" =>
              \A r2 \in RainSeqs :
                 \A k \in 0..Len(rain) :
                    (k <= Len(r2) /\ Prefix(r2, k) = Prefix(rain, k))
                       => Prefix(FirstCall(a, b, c, r2), k) = Prefix(result.val, k)

Wit_C5 ==
    /\ impl = "py" /\ pc = "done" /\ Len(rain) >= 2
    /\ \E r2 \in RainSeqs :
          /\ Len(r2) = Len(rain) /\ r2[1] = rain[1] /\ r2[2] # rain[2]
          /\ FirstCall(a, b, c, r2)[1] = result.val[1]
          /\ FirstCall(a, b, c, r2)[2] # result.val[2]

\* C6: with a = b = c = 0 abc_model_py passes its input through unchanged
\* and the carried state stays 0.
Thm_C6 ==
    (PyActive /\ a = Zero /\ b = Zero /\ c = Zero) =>
        /\ state_in = Zero
        /\ state_out = Zero
        /\ \A k \in 1..PyWritten : outflow[k] = rain[k]
        /\ pc = "done" => result.val = rain

Wit_C6 ==
    /\ impl = "py" /\ pc = "done"
    /\ a = Zero /\ b = Zero /\ c = Zero
    /\ Len(rain) >= 2 /\ rain[1] # Zero /\ result.val = rain

\* C7 (as claimed): no implementation ends in an error, and each returns an
\* empty output for an empty input.
Cex_C7 ==
    pc \in {"done", "raised"} =>
        /\ result.kind = "value"
        /\ Len(rain) = 0 => result.val = <<>>

\* C8: while abc_model_py runs, its arguments are never written, the output
\* keeps its length, only line 80 writes the output and it writes position i
\* only, and the output the loop starts from is freshly zeroed.
PyRunning == impl = "py" /\ pc \in {"py78", "py79", "py80", "py81", "py82"}

Thm_C8 ==
    [][ /\ PyRunning =>
              /\ a' = a /\ b' = b /\ c' = c /\ rain' = rain
              /\ DOMAIN outflow' = DOMAIN outflow
              /\ pc # "py80" => outflow' = outflow
              /\ \A k \in DOMAIN outflow : k # i + 1 => outflow'[k] = outflow[k]
              /\ pc = "py82" => result'.val = outflow
        /\ (impl' = "py" /\ pc' = "py78" /\ i' = -1) => outflow' = Zeros(Len(rain'))
      ]_vars

Wit_C8 ==
    /\ impl = "py" /\ pc = "py81" /\ i >= 1
    /\ outflow[1] # Zero /\ outflow[i + 1] # Zero /\ outflow[i + 1] # outflow[1]

\* C9 (as claimed): all three implementations return the output of
\* abc_model_py and carry the same state into every iteration.
Cex_C9 ==
    /\ pc \in {"done", "raised"} =>
          result = [kind |-> "value", val |-> FirstCall(a, b, c, rain)]
    /\ pc \in {"py78", "nb90"} => state_in = PyStateAfter(a, c, rain, i + 1)
    /\ pc = "f138" => state_in = PyStateAfter(a, c, rain, t - 1)

\* C10: water balance: after k iterations the outputs written plus the
\* carried state equal (1 - b) times the inputs consumed, and each iteration
\* satisfies state_out + output[i] = state_in + (1 - b) * rain[i]; in the
\* Python loops and in the Fortran loop.
Balance(k) ==
    RAdd(SumTo(outflow, k), state_in) = RMul(RSub(One, b), SumTo(rain, k))

StepBalance(k) ==
    RAdd(state_out, outflow[k]) = RAdd(state_in, RMul(RSub(One, b), rain[k]))

Thm_C10 ==
    /\ pc \in {"py78", "py82", "nb90", "nb94"} => Balance(i + 1)
    /\ pc \in {"f138", "f175"} => Balance(t - 1)
    /\ pc = "done" => Balance(Len(rain))
    /\ pc \in {"py81", "nb93"} => StepBalance(i + 1)
    /\ pc = "f141" => StepBalance(t)

Wit_C10 ==
    /\ impl = "py" /\ pc = "done" /\ Len(rain) >= 2
    /\ b # Zero /\ state_in # Zero
    /\ SumTo(rain, Len(rain)) # Zero /\ SumTo(outflow, Len(rain)) # Zero

====
